---------------------------- MODULE Spec2Model ----------------------------
(***************************************************************************)
(* Model of the dashboard data layer (src/js/dashboard/data.js): the       *)
(* statistics engine computeStatsFromPaths, the three result normalizers   *)
(* fetchFull / fetchRawPaths / generateMockData and the waterfall strategy *)
(* fetchSimulationResults; of the dashboard app that calls it              *)
(* (src/unnamed/part_000): the visual state machine, the chart lifecycle,  *)
(* the warp effect and debounce; and of the landing page's scroll engine   *)
(* (src/js/scroll.js): the scroll loop and the hero path animation.        *)
(*                                                                         *)
(* Number representation.  JavaScript numbers are modelled by exact        *)
(* integers in fixed units (floating-point rounding error of the double    *)
(* arithmetic is not modelled):                                            *)
(*   - a price is an integer number of thousandths (mills);                *)
(*   - a value that went through parseFloat(x.toFixed(2)) is an integer    *)
(*     number of hundredths (cents);                                       *)
(*   - a value that went through parseFloat(x.toFixed(1)) is an integer    *)
(*     number of tenths;                                                   *)
(*   - a measured latency is an integer number of half milliseconds.    *)
(* NaN is the sentinel NaN (all genuine values are >= 0).  A field of a    *)
(* JavaScript object whose value is `undefined` is listed in the object's  *)
(* `undef` set and carries a placeholder value.                            *)
(***************************************************************************)
EXTENDS Integers, Sequences, FiniteSets, TLC

VARIABLES
    pc,         \* position of the running fetchSimulationResults invocation
    ticker,     \* its argument
    attempts,   \* the source attempts it has started so far, with their state
    resp,       \* body of the response being read / last read (payload)
    apiTime,    \* fetchRawPaths: performance.now() - t0, in half ms
    result,     \* the object the invocation resolved with
    source,     \* which normalizer built `result`
    draws,      \* the Math.random() draws consumed while building `result`
    statsCalls, \* number of computeStatsFromPaths calls of this invocation
    nSettled,   \* how many times the invocation's promise has settled
    sPaths,     \* statistics engine under test: the ensemble
    sStart,     \*   its start price
    sStats,     \*   the value computeStatsFromPaths returned for it
    sAgain,     \*   the value a second call on the same arguments returned
    gS0,        \* path generator under test: the start price
    gDays,      \*   the number of prices asked for
    gFactors,   \*   the value of Math.exp(drift + vol * gaussRandom()) at each step
    gPath,      \*   the path generatePath returned
    booted,     \* dashboard app: the module's last statement (boot) has run
    currentState, \* its visual state
    currentData,  \* the simulation_results it shows
    hidden,     \* the `hidden` attribute of the three panels
    warpRunning,  \* warp effect: the draw loop may draw
    warpRafId,  \*   "null", or "id" once a frame of the loop was requested
    frames,     \* callbacks given to requestAnimationFrame, not yet run
    timeouts,   \* pending 150 ms callbacks of renderDashboard (their data)
    resizeTimer,  \* handleResize's debounce timer is pending
    charts,     \* the chart containers that hold an svg
    rendered,   \* what renderDashboard last wrote into the top bar
    toasts,     \* number of showToast calls so far
    runs,       \* the runSimulation invocations, in the order they started
    lastFrom,   \* the state the most recent transitionTo call left
    scrollBooted, \* scroll engine: init has run
    scrollY,    \*   its copy of window.pageYOffset
    ticking,    \*   its `ticking` flag
    tickFrames, \*   number of onTick callbacks waiting for a frame
    pathsAnimating, \* hero paths: the flag of the float loop
    heroTimer,  \*   the 3000 ms start timer is pending
    lastReport, \*   the observer's last report: "none", "in" or "out"
    pathFrames, \*   number of animatePaths callbacks waiting for a frame
    dTimer,     \* debounce under test: the closure's `timer` (0 = undefined)
    dTimers,    \*   the timers set with setTimeout and neither fired nor cleared
    dNow,       \*   the clock
    dCalls,     \*   the calls of the debounced function so far
    dRuns       \*   the invocations of fn so far

acqVars == <<pc, ticker, attempts, resp, apiTime, result, source, draws,
             statsCalls, nSettled>>
statVars == <<sPaths, sStart, sStats, sAgain>>
genVars == <<gS0, gDays, gFactors, gPath>>
dashVars == <<booted, currentState, currentData, hidden, warpRunning, warpRafId,
              frames, timeouts, resizeTimer, charts, rendered, toasts, runs,
              lastFrom>>
scrollVars == <<scrollBooted, scrollY, ticking, tickFrames, pathsAnimating, heroTimer,
                lastReport, pathFrames>>
debVars == <<dTimer, dTimers, dNow, dCalls, dRuns>>
uiVars == <<dashVars, scrollVars, debVars>>
vars == <<acqVars, statVars, genVars, uiVars>>

(***************************************************************************)
(* Bounds of the model.                                                    *)
(***************************************************************************)
MaxPaths == 37      \* largest ensemble / sample a response carries
MaxDays == 2        \* longest path a response carries
MaxSeed == 0        \* patterns of prices in a response, draw sequences
MaxApiTime == 3     \* largest measured latency, in half ms
RandDen == 100      \* Math.random() is modelled in steps of 1/RandDen
MockNumPaths == 36  \* stands for numPaths = 10000 of generateMockData (> VIZ_SAMPLE_COUNT)
MockDays == 3       \* stands for days = 252 of generateMockData
MaxSmallPaths == 2  \* statistics engine: ensembles enumerated exhaustively
MaxSmallDays == 2
MaxStatPaths == 51  \* statistics engine: patterned ensembles
MaxStatDays == 11
MaxStatSeed == 1
MaxGenDays == 4      \* path generator: longest path generated on its own

(***************************************************************************)
(* Program constants.                                                      *)
(***************************************************************************)
VIZ_SAMPLE_COUNT == 35
binCount == 24

NaN == 0 - 1
None == [none |-> TRUE]

\* the values of Math.random() (in [0, 1)) the model draws, as multiples of
\* 1/RandDen: the smallest, the middle and the largest
RandomValues == {0, RandDen \div 2, RandDen - 1}

Min(a, b) == IF a < b THEN a ELSE b
Max(a, b) == IF a > b THEN a ELSE b

RECURSIVE SumSeq(_)
SumSeq(s) == IF s = <<>> THEN 0 ELSE Head(s) + SumSeq(Tail(s))

\* Math.round(num/den) for den > 0: floor(x + 0.5)
MathRound(num, den) == (2 * num + den) \div (2 * den)

\* Number.prototype.toFixed followed by parseFloat, for num/den >= 0, den > 0:
\* the nearest multiple of 1/scale (ties upwards), returned as a count of 1/scale;
\* NaN.toFixed(n) is "NaN"
ToFixed(num, den, scale) ==
    IF num = NaN THEN NaN ELSE (2 * num * scale + den) \div (2 * den)

\* Array.prototype.slice(0, n)
Slice(s, n) == SubSeq(s, 1, Min(n, Len(s)))


(***************************************************************************)
(* Statistics engine: computeStatsFromPaths(paths, startPrice).            *)
(* `u` is the Math.random() draw (u/RandDen) used for the cpu_counts       *)
(* jitter; the model uses one draw for all bins of a call.                 *)
(***************************************************************************)
Infinity == 0 - 2

\* a < b on JavaScript numbers (false when either is NaN)
JsLt(a, b) == a # NaN /\ b # NaN /\ (b = Infinity \/ (a # Infinity /\ a < b))

\* a <= b on JavaScript numbers (false when either is NaN)
JsLe(a, b) == a # NaN /\ b # NaN /\ a <= b

\* path[k - 1] of the code: reading outside the array yields undefined, which
\* every numeric comparison and operation treats as NaN
At(path, k) == IF k \in 1..Len(path) THEN path[k] ELSE NaN

\* const finalPrices = paths.map(p => p[p.length - 1])
FinalPrices(paths) == [i \in 1..Len(paths) |-> At(paths[i], Len(paths[i]))]

\* the inner loop with `<=` in place of `<`
RECURSIVE ScanDrawdownLe(_, _, _, _, _, _)
ScanDrawdownLe(path, startPrice, d, days, currentDD, maxDD) ==
    IF d >= days THEN maxDD
    ELSE IF JsLe(At(path, d + 1), startPrice)
         THEN ScanDrawdownLe(path, startPrice, d + 1, days, currentDD + 1,
                             IF currentDD + 1 > maxDD THEN currentDD + 1 ELSE maxDD)
         ELSE ScanDrawdownLe(path, startPrice, d + 1, days, 0, maxDD)

\* the inner loop over d = 1 .. days-1 (path[d + 1] is the code's paths[i][d])
RECURSIVE ScanDrawdown(_, _, _, _, _, _)
ScanDrawdown(path, startPrice, d, days, currentDD, maxDD) ==
    IF d >= days THEN maxDD
    ELSE IF JsLt(At(path, d + 1), startPrice)
         THEN ScanDrawdown(path, startPrice, d + 1, days, currentDD + 1,
                           IF currentDD + 1 > maxDD THEN currentDD + 1 ELSE maxDD)
         ELSE ScanDrawdown(path, startPrice, d + 1, days, 0, maxDD)

MaxDrawdowns(paths, startPrice) ==
    [i \in 1..Len(paths) |->
        ScanDrawdown(paths[i], startPrice, 1, Len(paths[1]), 0, 0)]

\* [...finalPrices].sort((a, b) => a - b); sort moves undefined elements to the end
Sorted(finalPrices) ==
    SortSeq(SelectSeq(finalPrices, LAMBDA p : p # NaN), LAMBDA a, b : a < b)
        \o SelectSeq(finalPrices, LAMBDA p : p = NaN)

\* sorted[Math.floor(q/100 * sorted.length)]
Percentile(sorted, q) == sorted[((q * Len(sorted)) \div 100) + 1]

\* binEdges[i]: parseFloat((trimLow + i * binWidth).toFixed(2)), in cents
BinEdges(trimLow, trimHigh) ==
    [k \in 1..(binCount + 1) |->
        IF trimLow = NaN \/ trimHigh = NaN THEN NaN
        ELSE ToFixed(binCount * trimLow + (k - 1) * (trimHigh - trimLow),
                     binCount * 1000, 100)]

\* Math.min(Math.floor((p - trimLow) / binWidth), binCount - 1); 0/0 is NaN
BinIndex(p, trimLow, trimHigh) ==
    IF p = NaN \/ trimLow = NaN \/ trimHigh = NaN \/ trimHigh = trimLow THEN NaN
    ELSE Min(((p - trimLow) * binCount) \div (trimHigh - trimLow), binCount - 1)

\* the loop `for (const p of finalPrices)`: fpgaCounts[idx]++ (an idx of NaN
\* touches no element of the array)
FpgaCounts(finalPrices, trimLow, trimHigh) ==
    LET idx == [i \in 1..Len(finalPrices) |->
                   IF JsLt(finalPrices[i], trimLow) \/ JsLt(trimHigh, finalPrices[i])
                   THEN NaN
                   ELSE BinIndex(finalPrices[i], trimLow, trimHigh)]
    IN  [b \in 1..binCount |->
            Cardinality({i \in 1..Len(finalPrices) : idx[i] = b - 1})]

\* Math.max(0, c + Math.round((Math.random() - 0.5) * c * 0.04))
CpuCounts(fpgaCounts, u) ==
    [b \in 1..binCount |->
        Max(0, fpgaCounts[b] + MathRound((2 * u - RandDen) * fpgaCounts[b], 50 * RandDen))]

\* the mean of the prices at or above var95
Cvar95Ge(sorted, var95) ==
    LET cvarValues == SelectSeq(sorted, LAMBDA p : JsLe(var95, p))
    IN  IF Len(cvarValues) > 0
        THEN [num |-> SumSeq(cvarValues), den |-> Len(cvarValues)]
        ELSE [num |-> var95, den |-> 1]

\* cvarValues = sorted.filter(p => p <= var95); its mean, or var95 when empty
Cvar95(sorted, var95) ==
    LET cvarValues == SelectSeq(sorted, LAMBDA p : JsLe(p, var95))
    IN  IF Len(cvarValues) > 0
        THEN [num |-> SumSeq(cvarValues), den |-> Len(cvarValues)]
        ELSE [num |-> var95, den |-> 1]

\* probProfit counting the final prices at or above the start price
ProbProfitGe(finalPrices, startPrice) ==
    ToFixed(100 * Cardinality({i \in 1..Len(finalPrices) :
                                  JsLe(startPrice, finalPrices[i])}),
            Len(finalPrices), 10)

\* probProfit = finalPrices.filter(p => p > startPrice).length / numPaths * 100,
\* then parseFloat(probProfit.toFixed(1)): in tenths
ProbProfit(finalPrices, startPrice) ==
    ToFixed(100 * Cardinality({i \in 1..Len(finalPrices) :
                                  JsLt(startPrice, finalPrices[i])}),
            Len(finalPrices), 10)

\* a drawdown bucket the last of which was closed at 5 * ddStep
ddBinEdgesBounded(days) ==
    LET ddStep == Max(1, (days - 1) \div 5)
    IN  [i \in 1..5 |-> [lo |-> (i - 1) * ddStep, hi |-> i * ddStep]]

\* the drawdown buckets with ddStep = Math.floor(maxStep / 5), not clamped to 1
ddBinEdgesUnclamped(days) ==
    LET ddStep == (days - 1) \div 5
    IN  [i \in 1..5 |-> [lo |-> (i - 1) * ddStep,
                         hi |-> IF i = 5 THEN Infinity ELSE i * ddStep]]

\* ddBinEdges: [lo, hi] for i = 0..4, hi = Infinity for i = 4
ddBinEdges(days) ==
    LET ddStep == Max(1, (days - 1) \div 5)
    IN  [i \in 1..5 |-> [lo |-> (i - 1) * ddStep,
                         hi |-> IF i = 5 THEN Infinity ELSE i * ddStep]]

\* ddLabels: `${lo}d+` is <<lo>>, `${lo}-${hi}d` is <<lo, hi>>
ddLabels(days) ==
    LET ddStep == Max(1, (days - 1) \div 5)
    IN  [i \in 1..5 |-> IF i = 5 THEN <<(i - 1) * ddStep>>
                                 ELSE <<(i - 1) * ddStep, i * ddStep>>]

\* ddBinEdges.map(([lo, hi]) => maxDrawdowns.filter(dd => dd >= lo && dd < hi).length)
ddCounts(maxDrawdowns, edges) ==
    [i \in 1..5 |->
        Cardinality({j \in 1..Len(maxDrawdowns) :
            maxDrawdowns[j] >= edges[i].lo /\ JsLt(maxDrawdowns[j], edges[i].hi)})]

\* an ensemble every price of which is NaN (startPrice undefined): every
\* comparison is false, sorted[..] is NaN, the tail set is empty
NaNStats(paths) ==
    [ risk_statistics |->
        [ value_at_risk_95 |-> NaN, conditional_value_at_risk_95 |-> NaN,
          probability_of_profit |-> 0, average_drawdown_days |-> 0 ],
      histogram_data |->
        [ bin_edges |-> [k \in 1..(binCount + 1) |-> NaN],
          fpga_counts |-> [b \in 1..binCount |-> 0],
          cpu_counts |-> [b \in 1..binCount |-> 0] ],
      drawdown_distribution |->
        [ bin_edges |-> ddLabels(Len(paths[1])),
          counts |-> ddCounts([i \in 1..Len(paths) |-> 0], ddBinEdges(Len(paths[1]))) ] ]

computeStatsFromPaths(paths, startPrice, u) ==
    IF paths[1][1] = NaN THEN NaNStats(paths) ELSE
    LET numPaths == Len(paths)
        days == Len(paths[1])
        finalPrices == FinalPrices(paths)
        maxDrawdowns == MaxDrawdowns(paths, startPrice)
        sorted == Sorted(finalPrices)
        trimLow == Percentile(sorted, 2)
        trimHigh == Percentile(sorted, 98)
        fpgaCounts == FpgaCounts(finalPrices, trimLow, trimHigh)
        var95 == Percentile(sorted, 5)
        cvar95 == Cvar95(sorted, var95)
    IN  [ risk_statistics |->
            [ value_at_risk_95 |-> ToFixed(var95, 1000, 100),
              conditional_value_at_risk_95 |-> ToFixed(cvar95.num, cvar95.den * 1000, 100),
              probability_of_profit |-> ProbProfit(finalPrices, startPrice),
              average_drawdown_days |-> MathRound(SumSeq(maxDrawdowns), numPaths) ],
          histogram_data |->
            [ bin_edges |-> BinEdges(trimLow, trimHigh),
              fpga_counts |-> fpgaCounts,
              cpu_counts |-> CpuCounts(fpgaCounts, u) ],
          drawdown_distribution |->
            [ bin_edges |-> ddLabels(days),
              counts |-> ddCounts(maxDrawdowns, ddBinEdges(days)) ] ]

(***************************************************************************)
(* Inputs: ticker symbols, response bodies.                                *)
(***************************************************************************)
\* two configured symbols, a symbol that is no key at all, and a symbol that
\* is a member every object literal inherits (CONFIGS["toString"] is a function)
Tickers == {"SPY", "TSLA", "ZZZ", "toString"}

\* the fields of a CanonicalResult, by path
ResultFields ==
    { "ticker", "name", "start_price", "n_steps",
      "performance.fpga_time_ms", "performance.cpu_time_ms",
      "performance.speed_improvement_x",
      "risk_statistics.value_at_risk_95",
      "risk_statistics.conditional_value_at_risk_95",
      "risk_statistics.probability_of_profit",
      "risk_statistics.average_drawdown_days",
      "histogram_data.bin_edges", "histogram_data.fpga_counts",
      "histogram_data.cpu_counts",
      "drawdown_distribution.bin_edges", "drawdown_distribution.counts",
      "price_paths" }

\* the fields a rich response is read for
RichFields ==
    { "ticker", "start_price", "n_steps", "fpga_time_ms", "cpu_time_ms",
      "speed_improvement_x", "value_at_risk_95", "conditional_value_at_risk_95",
      "probability_of_profit", "average_drawdown_days", "histogram_bin_edges",
      "histogram_fpga_counts", "histogram_cpu_counts", "drawdown_bin_edges",
      "drawdown_counts", "sample_paths" }

\* a price pattern: path i of an ensemble, all paths starting at the same price
PatternPath(i, days, s) ==
    [d \in 1..days |->
        IF d = 1 THEN 100000
        ELSE 100000 + (((i * (s + 2) + d) % 5) - 2) * 1502]

Ensemble(n, days, s) == [i \in 1..n |-> PatternPath(i, days, s)]

\* a complete rich response for ticker t carrying k sample paths
RichBody(t, k) ==
    [ isNull |-> FALSE, missing |-> {},
      ticker |-> t, start_price |-> 100000, n_steps |-> 2,
      fpga_time_ms |-> 150, cpu_time_ms |-> 2200, speed_improvement_x |-> 147,
      value_at_risk_95 |-> 9850, conditional_value_at_risk_95 |-> 9700,
      probability_of_profit |-> 512, average_drawdown_days |-> 1,
      histogram_bin_edges |-> <<9700, 10000, 10300>>,
      histogram_fpga_counts |-> <<3, 4>>, histogram_cpu_counts |-> <<4, 3>>,
      drawdown_bin_edges |-> <<<<0, 1>>, <<1>>>>, drawdown_counts |-> <<5, 2>>,
      sample_paths |-> Ensemble(k, 2, 0) ]

\* JSON.parse results a rich request can get: null, complete bodies with any
\* number of sample paths and any ticker, bodies lacking some of the fields
RichBodies ==
    {[RichBody("SPY", 0) EXCEPT !.isNull = TRUE]}
    \cup {RichBody("SPY", k) : k \in 0..MaxPaths}
    \cup {RichBody("TSLA", 1)}
    \cup {[RichBody("SPY", 1) EXCEPT !.missing = {f}] : f \in RichFields}
    \cup {[RichBody("SPY", 1) EXCEPT !.missing = RichFields]}

\* JSON.parse results a raw-paths request can get: null, an object without
\* `paths`, an empty path list, a list whose first path is empty, a list whose
\* second path is empty, ensembles
RawBodies ==
    { [isNull |-> TRUE, hasPaths |-> FALSE, paths |-> <<>>],
      [isNull |-> FALSE, hasPaths |-> FALSE, paths |-> <<>>],
      [isNull |-> FALSE, hasPaths |-> TRUE, paths |-> <<>>],
      [isNull |-> FALSE, hasPaths |-> TRUE, paths |-> << <<>> >>],
      [isNull |-> FALSE, hasPaths |-> TRUE, paths |-> << <<100000, 90000>>, <<>> >>] }
    \cup {[isNull |-> FALSE, hasPaths |-> TRUE, paths |-> Ensemble(n, days, s)] :
            n \in 1..MaxPaths, days \in 1..MaxDays, s \in 0..MaxSeed}

(***************************************************************************)
(* Result normalizers.                                                     *)
(***************************************************************************)
\* the field of the rich response each result field is read from
RichSource(f) ==
    CASE f \in {"ticker", "name"} -> "ticker"
      [] f \in {"start_price", "n_steps"} -> f
      [] f = "performance.fpga_time_ms" -> "fpga_time_ms"
      [] f = "performance.cpu_time_ms" -> "cpu_time_ms"
      [] f = "performance.speed_improvement_x" -> "speed_improvement_x"
      [] f = "risk_statistics.value_at_risk_95" -> "value_at_risk_95"
      [] f = "risk_statistics.conditional_value_at_risk_95" -> "conditional_value_at_risk_95"
      [] f = "risk_statistics.probability_of_profit" -> "probability_of_profit"
      [] f = "risk_statistics.average_drawdown_days" -> "average_drawdown_days"
      [] f = "histogram_data.bin_edges" -> "histogram_bin_edges"
      [] f = "histogram_data.fpga_counts" -> "histogram_fpga_counts"
      [] f = "histogram_data.cpu_counts" -> "histogram_cpu_counts"
      [] f = "drawdown_distribution.bin_edges" -> "drawdown_bin_edges"
      [] f = "drawdown_distribution.counts" -> "drawdown_counts"
      [] f = "price_paths" -> "sample_paths"

\* a normalizer that fills cpu_time_ms from the fast timing
fetchFullSwapped(d) ==
    [ ticker |-> d.ticker, name |-> d.ticker,
      start_price |-> d.start_price, n_steps |-> d.n_steps,
      performance |->
        [ fpga_time_ms |-> d.fpga_time_ms, cpu_time_ms |-> d.fpga_time_ms,
          speed_improvement_x |-> d.speed_improvement_x ],
      risk_statistics |->
        [ value_at_risk_95 |-> d.value_at_risk_95,
          conditional_value_at_risk_95 |-> d.conditional_value_at_risk_95,
          probability_of_profit |-> d.probability_of_profit,
          average_drawdown_days |-> d.average_drawdown_days ],
      histogram_data |->
        [ bin_edges |-> d.histogram_bin_edges,
          fpga_counts |-> d.histogram_fpga_counts,
          cpu_counts |-> d.histogram_cpu_counts ],
      drawdown_distribution |->
        [ bin_edges |-> d.drawdown_bin_edges, counts |-> d.drawdown_counts ],
      price_paths |-> d.sample_paths,
      undef |-> {f \in ResultFields : RichSource(f) \in d.missing} ]

\* fetchFull's return statement (d is the parsed body, not null)
fetchFull(d) ==
    [ ticker |-> d.ticker, name |-> d.ticker,
      start_price |-> d.start_price, n_steps |-> d.n_steps,
      performance |->
        [ fpga_time_ms |-> d.fpga_time_ms, cpu_time_ms |-> d.cpu_time_ms,
          speed_improvement_x |-> d.speed_improvement_x ],
      risk_statistics |->
        [ value_at_risk_95 |-> d.value_at_risk_95,
          conditional_value_at_risk_95 |-> d.conditional_value_at_risk_95,
          probability_of_profit |-> d.probability_of_profit,
          average_drawdown_days |-> d.average_drawdown_days ],
      histogram_data |->
        [ bin_edges |-> d.histogram_bin_edges,
          fpga_counts |-> d.histogram_fpga_counts,
          cpu_counts |-> d.histogram_cpu_counts ],
      drawdown_distribution |->
        [ bin_edges |-> d.drawdown_bin_edges, counts |-> d.drawdown_counts ],
      price_paths |-> d.sample_paths,
      undef |-> {f \in ResultFields : RichSource(f) \in d.missing} ]

\* parseFloat((cpuTime / fpgaTime).toFixed(1)), in tenths; 0/0 is NaN
SpeedImprovement(cpuTime, fpgaTime) ==
    IF fpgaTime = 0 THEN NaN ELSE ToFixed(cpuTime, fpgaTime, 10)

\* a fast timing that is not clamped to 1
fpgaTimeUnclamped(t) == MathRound(t, 2)

\* fetchRawPaths: Math.max(1, Math.round(apiTime)), apiTime = t/2 ms
fpgaTimeOf(t) == Max(1, MathRound(t, 2))

\* fetchRawPaths: Math.round(fpgaTime * 15)
cpuTimeOf(fpgaTime) == MathRound(fpgaTime * 15, 1)

\* fetchRawPaths rejects the body: reading json.paths of null throws, and
\* !allPaths || !allPaths.length || !allPaths[0].length throws 'Empty paths'
RawBodyThrows(json) ==
    \/ json.isNull
    \/ ~json.hasPaths
    \/ Len(json.paths) = 0
    \/ Len(json.paths[1]) = 0

\* a normalizer that computes the statistics from the visualization sample
fetchRawPathsFromSample(t, allPaths, time, u) ==
    LET vizPaths == Slice(allPaths, VIZ_SAMPLE_COUNT)
        stats == computeStatsFromPaths(vizPaths, allPaths[1][1], u)
        fpgaTime == fpgaTimeOf(time)
    IN  [ ticker |-> t, name |-> t,
          start_price |-> allPaths[1][1], n_steps |-> Len(allPaths[1]),
          performance |->
            [ fpga_time_ms |-> fpgaTime, cpu_time_ms |-> cpuTimeOf(fpgaTime),
              speed_improvement_x |-> SpeedImprovement(cpuTimeOf(fpgaTime), fpgaTime) ],
          risk_statistics |-> stats.risk_statistics,
          histogram_data |-> stats.histogram_data,
          drawdown_distribution |-> stats.drawdown_distribution,
          price_paths |-> vizPaths,
          undef |-> {} ]

\* fetchRawPaths after its validation: the result built from json.paths
fetchRawPaths(t, allPaths, time, u) ==
    LET startPrice == allPaths[1][1]
        vizPaths == Slice(allPaths, VIZ_SAMPLE_COUNT)
        stats == computeStatsFromPaths(allPaths, startPrice, u)
        fpgaTime == fpgaTimeOf(time)
        cpuTime == cpuTimeOf(fpgaTime)
    IN  [ ticker |-> t, name |-> t,
          start_price |-> startPrice, n_steps |-> Len(allPaths[1]),
          performance |->
            [ fpga_time_ms |-> fpgaTime, cpu_time_ms |-> cpuTime,
              speed_improvement_x |-> SpeedImprovement(cpuTime, fpgaTime) ],
          risk_statistics |-> stats.risk_statistics,
          histogram_data |-> stats.histogram_data,
          drawdown_distribution |-> stats.drawdown_distribution,
          price_paths |-> vizPaths,
          undef |-> {} ]

\* CONFIGS: price in mills; mu and sigma only shape the random factors
CONFIGS ==
    [ SPY  |-> [price |-> 190170, name |-> "S&P 500 ETF", undef |-> {}],
      AAPL |-> [price |-> 178500, name |-> "Apple Inc.", undef |-> {}],
      TSLA |-> [price |-> 245300, name |-> "Tesla Inc.", undef |-> {}],
      NVDA |-> [price |-> 875400, name |-> "NVIDIA Corp.", undef |-> {}] ]

\* CONFIGS[ticker] || CONFIGS.SPY.  A property lookup also finds the members
\* inherited from Object.prototype: CONFIGS["toString"] is a function, which
\* is truthy, has no price, mu or sigma, and whose name is "toString"
getTickerConfig(t) ==
    IF t \in DOMAIN CONFIGS THEN CONFIGS[t]
    ELSE IF t = "toString"
         THEN [price |-> NaN, name |-> "toString", undef |-> {"price", "mu", "sigma"}]
         ELSE CONFIGS.SPY

\* Math.exp(drift + vol * gaussRandom()) as one of three positive factors
\* (in percent), chosen by the draw sequence `seed`
StepFactor(i, d, seed) ==
    LET k == (i * (seed + 2) + d) % 3
    IN  IF k = 0 THEN 97 ELSE IF k = 1 THEN 100 ELSE 104

\* path[i - 1] * factor: the product of two doubles is the representable
\* value nearest to the exact product; the model's unit (one mill) stands for
\* the smallest positive double, below half of which a product becomes 0
MulFactor(price, factor) == MathRound(price * factor, 100)

\* the loop of generatePath truncating each product instead of rounding it
RECURSIVE generatePathAtTruncated(_, _, _)
generatePathAtTruncated(S0, d, factors) ==
    IF S0 = NaN THEN NaN
    ELSE IF d = 1 THEN S0
    ELSE (generatePathAtTruncated(S0, d - 1, factors) * factors[d]) \div 100

\* generatePath: path[0] = S0, path[i] = path[i-1] * factor; a Float64Array
\* turns an undefined S0 into NaN, and NaN times anything is NaN.
\* factors[d] is the value (in percent) Math.exp(drift + vol * gaussRandom())
\* took at step d - 1
RECURSIVE generatePathAt(_, _, _)
generatePathAt(S0, d, factors) ==
    IF S0 = NaN THEN NaN
    ELSE IF d = 1 THEN S0
    ELSE MulFactor(generatePathAt(S0, d - 1, factors), factors[d])

generatePathFrom(S0, days, factors) ==
    [d \in 1..days |-> generatePathAt(S0, d, factors)]

\* generatePath as generateMockData calls it, for path i of draw sequence `seed`
generatePath(S0, days, i, seed) ==
    generatePathFrom(S0, days, [d \in 2..days |-> StepFactor(i, d, seed)])

\* the Math.random() draws of one generateMockData call
Draws == [seed : 0..MaxSeed, u : RandomValues, u1 : RandomValues, u2 : RandomValues]

\* generateMockData after its generation loop: the result built from allPaths
mockResult(t, config, allPaths, dr) ==
    LET S0 == config.price
        vizPaths == Slice(allPaths, VIZ_SAMPLE_COUNT)
        stats == computeStatsFromPaths(allPaths, S0, dr.u)
        fpgaTime == 140 + MathRound(dr.u1 * 25, RandDen)
        cpuTime == 2150 + MathRound(dr.u2 * 250, RandDen)
    IN  [ ticker |-> t, name |-> config.name,
          start_price |-> S0, n_steps |-> Len(allPaths[1]),
          performance |->
            [ fpga_time_ms |-> fpgaTime, cpu_time_ms |-> cpuTime,
              speed_improvement_x |-> SpeedImprovement(cpuTime, fpgaTime) ],
          risk_statistics |-> stats.risk_statistics,
          histogram_data |-> stats.histogram_data,
          drawdown_distribution |-> stats.drawdown_distribution,
          price_paths |-> vizPaths,
          undef |-> IF "price" \in config.undef THEN {"start_price"} ELSE {} ]

\* generateMockData; dr = the Math.random() draws: dr.seed the path factors,
\* dr.u the cpu_counts jitter, dr.u1 and dr.u2 the two timings
generateMockData(t, dr) ==
    LET config == getTickerConfig(t)
        generated == {[i \in 1..MockNumPaths |->
                         generatePath(config.price, MockDays, i, dr.seed)]}
    IN  CHOOSE r \in {mockResult(t, config, allPaths, dr) : allPaths \in generated} : TRUE


\* generateMockData tabulated over the tickers and draws of the model
MockData == {<<t, dr, generateMockData(t, dr)>> : t \in Tickers, dr \in Draws}

MockDataOf(t, dr) == (CHOOSE e \in MockData : e[1] = t /\ e[2] = dr)[3]

(***************************************************************************)
(* Acquisition strategy: fetchSimulationResults.  Each action is one run   *)
(* of the async function between two awaits; a catch block and the start   *)
(* of the next attempt belong to the step in which the attempt threw.      *)
(***************************************************************************)
\* a strategy that goes on to the raw-paths attempt whatever fetchFull did
AfterFullAlways(threw) == "raw_fetch"

\* try { return await fetchFull(ticker) } catch (e1) { warn }: where control is next
AfterFull(threw) == IF threw THEN "raw_fetch" ELSE "resolved"

\* a strategy whose second try has no catch
AfterRawUncaught(threw) == IF threw THEN "rejected" ELSE "resolved"

\* try { return await fetchRawPaths(ticker) } catch (e2) { warn }: then the timer
AfterRaw(threw) == IF threw THEN "mock_delay" ELSE "resolved"

Mark(att, st) == [att EXCEPT ![Len(att)].st = st]

\* the attempt `src` has settled (threw, or returned res built from `body`) and
\* control moves on; the locals of an attempt that threw are dropped
Settle(src, threw, res, body, next) ==
    /\ pc' = next
    /\ attempts' =
         IF next \in {"raw_fetch", "mock_delay"}
         THEN Append(Mark(attempts, IF threw THEN "failed" ELSE "ok"),
                     [src |-> IF next = "raw_fetch" THEN "raw" ELSE "mock",
                      st |-> "pending"])
         ELSE Mark(attempts, IF threw THEN "failed" ELSE "ok")
    /\ source' = IF next = "resolved" THEN src ELSE "none"
    /\ resp' = IF next = "resolved" THEN body ELSE None
    /\ apiTime' = IF next = "resolved" THEN apiTime ELSE 0
    /\ result' = IF next = "resolved" THEN res ELSE None
    /\ nSettled' = IF next \in {"resolved", "rejected"} THEN nSettled + 1 ELSE nSettled

\* fetchSimulationResults(t) is called: fetchFull issues its request
Call(t) ==
    /\ pc = "idle"
    /\ pc' = "full_fetch"
    /\ ticker' = t
    /\ attempts' = <<[src |-> "full", st |-> "pending"]>>
    /\ resp' = None
    /\ apiTime' = 0
    /\ result' = None
    /\ source' = "none"
    /\ draws' = None
    /\ statsCalls' = 0
    /\ nSettled' = 0
    /\ UNCHANGED <<statVars, genVars, uiVars>>

\* fetch(url) of fetchFull rejects (transport failure)
FullFetchRejects ==
    /\ pc = "full_fetch"
    /\ Settle("full", TRUE, None, None, AfterFull(TRUE))
    /\ UNCHANGED <<ticker, draws, statsCalls, statVars, genVars, uiVars>>

\* the rich response arrives with !res.ok
FullStatusNotOk ==
    /\ pc = "full_fetch"
    /\ Settle("full", TRUE, None, None, AfterFull(TRUE))
    /\ UNCHANGED <<ticker, draws, statsCalls, statVars, genVars, uiVars>>

\* the rich response arrives with res.ok: res.json() is awaited
FullStatusOk ==
    /\ pc = "full_fetch"
    /\ pc' = "full_json"
    /\ UNCHANGED <<ticker, attempts, resp, apiTime, result, source, draws,
                   statsCalls, nSettled, statVars, genVars, uiVars>>

\* res.json() of the rich response rejects
FullJsonRejects ==
    /\ pc = "full_json"
    /\ Settle("full", TRUE, None, None, AfterFull(TRUE))
    /\ UNCHANGED <<ticker, draws, statsCalls, statVars, genVars, uiVars>>

\* res.json() of the rich response resolves with d: d.ticker of null throws,
\* any other body is reshaped and returned
FullJsonResolves(d) ==
    /\ pc = "full_json"
    /\ IF d.isNull
       THEN Settle("full", TRUE, None, None, AfterFull(TRUE))
       ELSE Settle("full", FALSE, fetchFull(d), d, AfterFull(FALSE))
    /\ UNCHANGED <<ticker, draws, statsCalls, statVars, genVars, uiVars>>

\* fetch(url) of fetchRawPaths rejects
RawFetchRejects ==
    /\ pc = "raw_fetch"
    /\ Settle("raw", TRUE, None, None, AfterRaw(TRUE))
    /\ UNCHANGED <<ticker, draws, statsCalls, statVars, genVars, uiVars>>

\* the raw-paths response arrives with !res.ok
RawStatusNotOk ==
    /\ pc = "raw_fetch"
    /\ Settle("raw", TRUE, None, None, AfterRaw(TRUE))
    /\ UNCHANGED <<ticker, draws, statsCalls, statVars, genVars, uiVars>>

\* the raw-paths response arrives after t half ms with res.ok
RawStatusOk(t) ==
    /\ pc = "raw_fetch"
    /\ apiTime' = t
    /\ pc' = "raw_json"
    /\ UNCHANGED <<ticker, attempts, resp, result, source, draws, statsCalls,
                   nSettled, statVars, genVars, uiVars>>

\* res.json() of the raw-paths response rejects
RawJsonRejects ==
    /\ pc = "raw_json"
    /\ Settle("raw", TRUE, None, None, AfterRaw(TRUE))
    /\ UNCHANGED <<ticker, draws, statsCalls, statVars, genVars, uiVars>>

\* res.json() of the raw-paths response resolves with json
RawJsonResolves(json, u) ==
    /\ pc = "raw_json"
    /\ IF RawBodyThrows(json)
       THEN /\ Settle("raw", TRUE, None, None, AfterRaw(TRUE))
            /\ UNCHANGED <<draws, statsCalls>>
       ELSE /\ draws' = [u |-> u]
            /\ statsCalls' = statsCalls + 1
            /\ Settle("raw", FALSE, fetchRawPaths(ticker, json.paths, apiTime, u),
                      json, AfterRaw(FALSE))
    /\ UNCHANGED <<ticker, statVars, genVars, uiVars>>

\* the 600..1000 ms timer fires: generateMockData(ticker) is returned
MockTimerFires(dr) ==
    /\ pc = "mock_delay"
    /\ draws' = dr
    /\ statsCalls' = statsCalls + 1
    /\ pc' = "resolved"
    /\ attempts' = Mark(attempts, "ok")
    /\ source' = "mock"
    /\ resp' = None
    /\ apiTime' = 0
    /\ result' = MockDataOf(ticker, dr)
    /\ nSettled' = nSettled + 1
    /\ UNCHANGED <<ticker, statVars, genVars, uiVars>>

\* the caller has its outcome; the next invocation can start
Return ==
    /\ pc \in {"resolved", "rejected"}
    /\ pc' = "idle"
    /\ attempts' = <<>>
    /\ resp' = None
    /\ apiTime' = 0
    /\ result' = None
    /\ source' = "none"
    /\ draws' = None
    /\ statsCalls' = 0
    /\ nSettled' = 0
    /\ UNCHANGED <<ticker, statVars, genVars, uiVars>>

\* no fetchSimulationResults invocation has been made
AcqIdle ==
    /\ pc = "idle"
    /\ ticker = "SPY"
    /\ attempts = <<>>
    /\ resp = None
    /\ apiTime = 0
    /\ result = None
    /\ source = "none"
    /\ draws = None
    /\ statsCalls = 0
    /\ nSettled = 0

\* the statistics engine has not been handed an ensemble
StatIdle ==
    /\ sPaths = <<>>
    /\ sStart = 0
    /\ sStats = None
    /\ sAgain = None

\* the path generator has not been called
GenIdle ==
    /\ gS0 = 0
    /\ gDays = 0
    /\ gFactors = <<>>
    /\ gPath = None

\* the dashboard page as loaded, before its script's boot statement: the
\* module-level `let`s hold their initializers, the processing and results
\* panels are hidden in the markup
DashIdle ==
    /\ booted = FALSE
    /\ currentState = "idle"
    /\ currentData = None
    /\ hidden = [idle |-> FALSE, processing |-> TRUE, results |-> TRUE]
    /\ warpRunning = FALSE
    /\ warpRafId = "null"
    /\ frames = <<>>
    /\ timeouts = <<>>
    /\ resizeTimer = FALSE
    /\ charts = {}
    /\ rendered = None
    /\ toasts = 0
    /\ runs = <<>>
    /\ lastFrom = "none"

\* the landing page before the scroll engine's init
ScrollIdle ==
    /\ scrollBooted = FALSE
    /\ scrollY = 0
    /\ ticking = FALSE
    /\ tickFrames = 0
    /\ pathsAnimating = FALSE
    /\ heroTimer = FALSE
    /\ lastReport = "none"
    /\ pathFrames = 0

\* a debounced function that was never called
DebIdle ==
    /\ dTimer = 0
    /\ dTimers = {}
    /\ dNow = 0
    /\ dCalls = <<>>
    /\ dRuns = <<>>

UiIdle == DashIdle /\ ScrollIdle /\ DebIdle

Init == AcqIdle /\ StatIdle /\ GenIdle /\ UiIdle

\* a step of the running invocation: something it awaits has arrived
Progress ==
    /\ pc \notin {"idle", "resolved", "rejected"}
    /\ \/ FullFetchRejects
       \/ FullStatusNotOk
       \/ FullStatusOk
       \/ FullJsonRejects
       \/ \E d \in RichBodies : FullJsonResolves(d)
       \/ RawFetchRejects
       \/ RawStatusNotOk
       \/ \E t \in 0..MaxApiTime : RawStatusOk(t)
       \/ RawJsonRejects
       \/ \E json \in RawBodies, u \in RandomValues : RawJsonResolves(json, u)
       \/ \E dr \in Draws : MockTimerFires(dr)

Next ==
    \/ \E t \in Tickers : Call(t)
    \/ Progress
    \/ Return

Spec == Init /\ [][Next]_vars

\* every response, rejection and timer the invocation waits for does arrive
FairSpec == Spec /\ WF_vars(Progress)

(***************************************************************************)
(* The statistics engine on its own: Init draws an ensemble, Compute       *)
(* applies computeStatsFromPaths to it.                                    *)
(***************************************************************************)
SmallPrices == {96996, 100000, 101502}

\* every ensemble of up to MaxSmallPaths paths of up to MaxSmallDays prices,
\* each path starting at the start price
SmallEnsembles ==
    UNION {[1..n -> {p \in [1..days -> SmallPrices] : p[1] = 100000}] :
             n \in 1..MaxSmallPaths, days \in 1..MaxSmallDays}

\* path i of a patterned ensemble: a run of r steps below the start price right
\* after step 0, then prices at or above it
RunPath(i, days, s) ==
    LET r == (i + s) % days
    IN  [d \in 1..days |->
            IF d = 1 THEN 100000
            ELSE IF d - 1 <= r THEN 100000 - (1 + (i % 3)) * 1003
            ELSE 100000 + ((i * 7 + s) % 4) * 1502]

StatEnsembles ==
    {[i \in 1..n |-> RunPath(i, days, s)] :
        n \in 1..MaxStatPaths, days \in 1..MaxStatDays, s \in 0..MaxStatSeed}

\* three paths of five prices: one below the start price on every later step,
\* one never below it, one below it once and equal to it twice
ExampleEnsemble ==
    << <<100000, 90000, 90000, 90000, 95000>>,
       <<100000, 105000, 110000, 108000, 112000>>,
       <<100000, 99000, 100000, 100000, 101000>> >>

\* path i of n of an ensemble with one lowest final price, one highest (n > 1)
\* and final prices in between that are all equal (s = 0) or take three values
TailPath(i, n, s) ==
    <<100000, IF i = 1 THEN 90000
              ELSE IF i = n THEN 120000
              ELSE 100000 + ((i * s) % 3) * 5000>>

TailEnsembles ==
    {[i \in 1..n |-> TailPath(i, n, s)] : n \in 1..MaxStatPaths, s \in 0..MaxStatSeed}

\* the ensemble generateMockData builds from a configuration without price,
\* mu and sigma: every price is NaN
NaNEnsemble == [i \in 1..3 |-> [d \in 1..2 |-> NaN]]

InitStats ==
    /\ AcqIdle /\ GenIdle /\ UiIdle
    /\ sPaths \in SmallEnsembles \cup StatEnsembles \cup TailEnsembles
                 \cup {ExampleEnsemble, NaNEnsemble}
    /\ sStart = sPaths[1][1]
    /\ sStats = None
    /\ sAgain = None

Compute(u) ==
    /\ sStats = None
    /\ sStats' = computeStatsFromPaths(sPaths, sStart, u)
    /\ UNCHANGED <<acqVars, genVars, uiVars, sPaths, sStart, sAgain>>

\* a second call with the same arguments (the first call left them unchanged)
Recompute(u) ==
    /\ sStats # None
    /\ sAgain = None
    /\ sAgain' = computeStatsFromPaths(sPaths, sStart, u)
    /\ UNCHANGED <<acqVars, genVars, uiVars, sPaths, sStart, sStats>>

NextStats == \E u \in RandomValues : Compute(u) \/ Recompute(u)

StatsSpec == InitStats /\ [][NextStats]_vars

(***************************************************************************)
(* The path generator on its own: Init draws a start price, a length and   *)
(* the factor of every step, Generate applies generatePath.                *)
(***************************************************************************)
\* start prices: the smallest positive value, its double, two ordinary ones
GenPrices == {1, 2, 100000, 190170}

\* values of Math.exp(drift + vol * gaussRandom()) in percent.  For the
\* configured sigma (at most 0.552) and days = 252 the exponent of a step is
\* above -0.3, the factor above 0.74; for a huge sigma the exponent is far
\* below 0 and the factor is tiny (1, 40) or underflows to 0
FactorValues == {0, 1, 40, 97, 104, 250}

InitGen ==
    /\ AcqIdle /\ StatIdle /\ UiIdle
    /\ gS0 \in GenPrices
    /\ gDays \in 2..MaxGenDays
    /\ gFactors \in [2..gDays -> FactorValues]
    /\ gPath = None

Generate ==
    /\ gPath = None
    /\ gPath' = generatePathFrom(gS0, gDays, gFactors)
    /\ UNCHANGED <<acqVars, statVars, uiVars, gS0, gDays, gFactors>>

NextGen == Generate

GenSpec == InitGen /\ [][NextGen]_vars

(***************************************************************************)
(* The dashboard app (src/unnamed/part_000, the module that imports        *)
(* fetchSimulationResults): the visual state machine, the chart lifecycle, *)
(* the warp effect and the resize handler.  The controller's operations    *)
(* are functions of its state, written here as operators on the record     *)
(* Dash; an action is one task of the event loop (a listener, a promise    *)
(* continuation, a timer or an animation-frame callback), run to its end.  *)
(***************************************************************************)
\* most runSimulation invocations followed in one behaviour
MaxRuns == 2

\* most callbacks waiting for an animation frame when a resize adds one
MaxFrames == 2

State == [IDLE |-> "idle", PROCESSING |-> "processing", RESULTS |-> "results"]

\* the containers destroyAllCharts empties
ChartNames == {"price-paths", "histogram", "drawdown", "performance"}

\* the values of the ticker select
DashTickers == {"SPY", "TSLA"}

\* what fetchSimulationResults(t) can resolve with when the rich endpoint
\* answers: the result of a complete body, of a body without start_price
Acquired(t) ==
    { fetchFull(RichBody(t, 1)),
      fetchFull([RichBody(t, 1) EXCEPT !.missing = {"start_price"}]) }

\* the controller's state as one value; threw: an exception is propagating
Dash ==
    [ currentState |-> currentState, currentData |-> currentData,
      hidden |-> hidden, warpRunning |-> warpRunning, warpRafId |-> warpRafId,
      frames |-> frames, timeouts |-> timeouts, charts |-> charts,
      rendered |-> rendered, toasts |-> toasts, lastFrom |-> lastFrom,
      threw |-> FALSE ]

\* the controller's state after the task is d
Becomes(d) ==
    /\ currentState' = d.currentState
    /\ currentData' = d.currentData
    /\ hidden' = d.hidden
    /\ warpRunning' = d.warpRunning
    /\ warpRafId' = d.warpRafId
    /\ frames' = d.frames
    /\ timeouts' = d.timeouts
    /\ charts' = d.charts
    /\ rendered' = d.rendered
    /\ toasts' = d.toasts
    /\ lastFrom' = d.lastFrom

\* requestAnimationFrame(cb): cb joins the callbacks of the next frame
requestAnimationFrame(q, kind, data) ==
    Append(q, [kind |-> kind, latest |-> FALSE, data |-> data])

\* cancelAnimationFrame(warpRafId): the frame warpRafId names is the warp
\* frame requested last, if it has not run yet
cancelAnimationFrame(q) == SelectSeq(q, LAMBDA f : ~(f.kind = "warp" /\ f.latest))

\* createXChart(selector, data) for the containers in `names`: createChart
\* finds the node, hidden or not, and appends an svg
createCharts(d, names) == [d EXCEPT !.charts = @ \cup names]

\* destroyAllCharts: every container loses its svg
destroyAllCharts(d) == [d EXCEPT !.charts = {}]

\* fmtCurrency(undefined) and undefined.length throw a TypeError
RenderThrows(data) == data.undef \cap {"start_price", "price_paths"} # {}

\* renderDashboard(data): top bar, subtitle, metrics, then the charts in the
\* next frame; an undefined start_price throws after the ticker was written
renderDashboard(d, data) ==
    IF RenderThrows(data)
    THEN [d EXCEPT !.rendered = [data |-> data, complete |-> FALSE],
                   !.threw = TRUE]
    ELSE [d EXCEPT !.rendered = [data |-> data, complete |-> TRUE],
                   !.frames = requestAnimationFrame(@, "charts", data)]

\* draw(): nothing unless warpRunning; else draws the streaks and asks for
\* the next frame, whose id goes to warpRafId
draw(d) ==
    IF ~d.warpRunning THEN d
    ELSE [d EXCEPT
            !.frames = Append([i \in 1..Len(@) |-> [@[i] EXCEPT !.latest = FALSE]],
                              [kind |-> "warp", latest |-> TRUE, data |-> None]),
            !.warpRafId = "id"]

\* startWarp (the canvas exists): warpRunning = true, first draw()
startWarp(d) == draw([d EXCEPT !.warpRunning = TRUE])

\* a stopWarp that leaves the flag alone
stopWarpFlagKept(d) ==
    IF d.warpRafId # "null" THEN [d EXCEPT !.frames = cancelAnimationFrame(@)] ELSE d

\* stopWarp: warpRunning = false; if (warpRafId) cancelAnimationFrame(warpRafId)
stopWarp(d) ==
    LET x == [d EXCEPT !.warpRunning = FALSE]
    IN  IF x.warpRafId # "null" THEN [x EXCEPT !.frames = cancelAnimationFrame(@)] ELSE x

\* a transitionTo without the exit block
transitionToNoExit(d, newState) ==
    LET x4 == [d EXCEPT !.currentState = newState, !.lastFrom = d.currentState]
    IN  CASE newState = State.IDLE -> [x4 EXCEPT !.hidden.idle = FALSE]
          [] newState = State.PROCESSING ->
                startWarp([x4 EXCEPT !.hidden.processing = FALSE])
          [] newState = State.RESULTS ->
                renderDashboard([x4 EXCEPT !.hidden.results = FALSE], x4.currentData)

\* transitionTo: leave the current state, set currentState, enter the new one;
\* lastFrom remembers the state that was left
transitionTo(d, newState) ==
    LET x1 == IF d.currentState = State.IDLE
              THEN [d EXCEPT !.hidden.idle = TRUE] ELSE d
        x2 == IF x1.currentState = State.PROCESSING
              THEN stopWarp([x1 EXCEPT !.hidden.processing = TRUE]) ELSE x1
        x3 == IF x2.currentState = State.RESULTS
              THEN [destroyAllCharts(x2) EXCEPT !.hidden.results = TRUE] ELSE x2
        x4 == [x3 EXCEPT !.currentState = newState, !.lastFrom = d.currentState]
    IN  CASE newState = State.IDLE -> [x4 EXCEPT !.hidden.idle = FALSE]
          [] newState = State.PROCESSING ->
                startWarp([x4 EXCEPT !.hidden.processing = FALSE])
          [] newState = State.RESULTS ->
                renderDashboard([x4 EXCEPT !.hidden.results = FALSE], x4.currentData)

\* showToast: the existing toast is removed, a new one appended
showToast(d) == [d EXCEPT !.toasts = @ + 1]

\* a runSimulation whose catch block only shows the toast
afterAwaitNoIdle(d, res) ==
    LET x == transitionTo([d EXCEPT !.currentData = res], State.RESULTS)
    IN  IF x.threw THEN showToast([x EXCEPT !.threw = FALSE]) ELSE x

\* runSimulation after its await: the try block, and the catch block when
\* the try block threw
afterAwait(d, res) ==
    LET x == transitionTo([d EXCEPT !.currentData = res], State.RESULTS)
    IN  IF x.threw
        THEN showToast(transitionTo([x EXCEPT !.threw = FALSE], State.IDLE))
        ELSE x

\* the variables of the other components
otherVars == <<acqVars, statVars, genVars, scrollVars, debVars>>

\* runSimulation up to its await: the ticker is read, PROCESSING entered, the
\* acquisition started
runSimulation(t) ==
    /\ booted
    /\ Len(runs) < MaxRuns
    /\ Becomes(transitionTo(Dash, State.PROCESSING))
    /\ runs' = Append(runs, [ticker |-> t, status |-> "pending", data |-> None])
    /\ UNCHANGED <<booted, resizeTimer, otherVars>>

\* the form's submit listener
Submit(t) == runSimulation(t)

\* the select's keydown listener, key Enter
EnterKey(t) == runSimulation(t)

\* the acquisition of run i resolves with res (it never rejects) and the
\* invocation runs to its end
AcquisitionSettles(i, res) ==
    /\ runs[i].status = "pending"
    /\ LET d == afterAwait(Dash, res)
       IN  /\ Becomes(d)
           /\ runs' = [runs EXCEPT ![i] =
                         [ticker |-> @.ticker,
                          status |-> IF d.currentState = State.RESULTS
                                     THEN "shown" ELSE "failed",
                          data |-> res]]
    /\ UNCHANGED <<booted, resizeTimer, otherVars>>

\* the rerun button's click listener
RerunClick ==
    /\ booted
    /\ Becomes(transitionTo(Dash, State.IDLE))
    /\ UNCHANGED <<booted, resizeTimer, runs, otherVars>>

\* a resize event: handleResize clears its timer and sets a new one
Resize ==
    /\ booted
    /\ resizeTimer' = TRUE
    /\ UNCHANGED <<booted, currentState, currentData, hidden, warpRunning,
                   warpRafId, frames, timeouts, charts, rendered, toasts, runs,
                   lastFrom, otherVars>>

\* 300 ms without a resize: the debounced function runs
ResizeTimerFires ==
    /\ resizeTimer
    /\ Len(frames) < MaxFrames
    /\ resizeTimer' = FALSE
    /\ IF currentState = State.RESULTS /\ currentData # None
       THEN Becomes([destroyAllCharts(Dash) EXCEPT
                        !.frames = requestAnimationFrame(@, "resize", None)])
       ELSE Becomes(Dash)
    /\ UNCHANGED <<booted, runs, otherVars>>

\* an animation frame: the callback that waited longest runs
Frame ==
    /\ frames # <<>>
    /\ LET f == Head(frames)
           d == [Dash EXCEPT !.frames = Tail(@)]
       IN  CASE f.kind = "charts" ->
                  Becomes([createCharts(d, {"price-paths", "histogram"}) EXCEPT
                              !.timeouts = Append(@, f.data)])
             [] f.kind = "resize" -> Becomes(createCharts(d, ChartNames))
             [] f.kind = "warp" -> Becomes(draw(d))
    /\ UNCHANGED <<booted, resizeTimer, runs, otherVars>>

\* the 150 ms (or 0 ms) timeout renderDashboard's frame callback set
Timeout ==
    /\ timeouts # <<>>
    /\ Becomes(createCharts([Dash EXCEPT !.timeouts = Tail(@)],
                            {"drawdown", "performance"}))
    /\ UNCHANGED <<booted, resizeTimer, runs, otherVars>>

\* the module's last statements: initAmbient(); transitionTo(State.IDLE)
Boot ==
    /\ ~booted
    /\ booted' = TRUE
    /\ Becomes(transitionTo(Dash, State.IDLE))
    /\ UNCHANGED <<resizeTimer, runs, otherVars>>

\* the page as loaded: the idle panel may or may not be hidden in the markup
InitDash ==
    /\ AcqIdle /\ StatIdle /\ GenIdle /\ ScrollIdle /\ DebIdle
    /\ booted = FALSE
    /\ currentState = State.IDLE
    /\ currentData = None
    /\ hidden \in {[idle |-> b, processing |-> TRUE, results |-> TRUE] : b \in BOOLEAN}
    /\ warpRunning = FALSE
    /\ warpRafId = "null"
    /\ frames = <<>>
    /\ timeouts = <<>>
    /\ resizeTimer = FALSE
    /\ charts = {}
    /\ rendered = None
    /\ toasts = 0
    /\ runs = <<>>
    /\ lastFrom = "none"

NextDash ==
    \/ Boot
    \/ \E t \in DashTickers : Submit(t)
    \/ \E t \in DashTickers : EnterKey(t)
    \/ \E i \in 1..Len(runs) : \E res \in Acquired(runs[i].ticker) :
           AcquisitionSettles(i, res)
    \/ RerunClick
    \/ Resize
    \/ ResizeTimerFires
    \/ Frame
    \/ Timeout

DashSpec == InitDash /\ [][NextDash]_vars

(***************************************************************************)
(* The landing page's scroll engine (src/js/scroll.js): the scroll loop    *)
(* (onScroll / onTick) and the float animation of the hero paths.  The     *)
(* hero SVG exists with at least one path and reduced motion is off, so    *)
(* initHeroPaths fills heroPathsData, sets its timer and observes the SVG. *)
(***************************************************************************)
\* most animatePaths callbacks waiting for a frame when the observer adds one
MaxPathFrames == 3

\* the scroll positions the page can be at
MaxScrollY == 2

\* init(): scrollY = window.pageYOffset; initHeroPaths sets the 3000 ms timer and the observer; the scroll
\* listener is bound; an initial onTick is requested (ticking stays false)
ScrollInit(y) ==
    /\ ~scrollBooted
    /\ scrollBooted' = TRUE
    /\ scrollY' = y
    /\ heroTimer' = TRUE
    /\ tickFrames' = tickFrames + 1
    /\ UNCHANGED <<ticking, pathsAnimating, lastReport, pathFrames,
                   acqVars, statVars, genVars, dashVars, debVars>>

\* a scroll event: scrollY = window.pageYOffset; if (!ticking) { requestAnimationFrame(onTick); ticking = true }
onScroll(y) ==
    /\ scrollBooted
    /\ scrollY' = y
    /\ IF ~ticking
       THEN tickFrames' = tickFrames + 1 /\ ticking' = TRUE
       ELSE UNCHANGED <<tickFrames, ticking>>
    /\ UNCHANGED <<scrollBooted, pathsAnimating, heroTimer, lastReport, pathFrames,
                   acqVars, statVars, genVars, dashVars, debVars>>

\* an animation frame runs one requested onTick: the updates, ticking = false
onTick ==
    /\ tickFrames > 0
    /\ tickFrames' = tickFrames - 1
    /\ ticking' = FALSE
    /\ UNCHANGED <<scrollBooted, scrollY, pathsAnimating, heroTimer, lastReport, pathFrames,
                   acqVars, statVars, genVars, dashVars, debVars>>

\* the 3000 ms timer: pathsAnimating = true; requestAnimationFrame(animatePaths)
HeroTimerFires ==
    /\ heroTimer
    /\ heroTimer' = FALSE
    /\ pathsAnimating' = TRUE
    /\ pathFrames' = pathFrames + 1
    /\ UNCHANGED <<scrollBooted, scrollY, ticking, tickFrames, lastReport,
                   acqVars, statVars, genVars, dashVars, debVars>>

\* the observer's callback: the hero SVG entered (b = "in") or left ("out")
\* the viewport; the first report after observe() tells where it is
ObserverReports(b) ==
    /\ scrollBooted
    /\ b # lastReport
    /\ lastReport' = b
    /\ IF b = "in"
       THEN IF ~pathsAnimating
            THEN /\ pathFrames < MaxPathFrames
                 /\ pathsAnimating' = TRUE
                 /\ pathFrames' = pathFrames + 1
            ELSE UNCHANGED <<pathsAnimating, pathFrames>>
       ELSE pathsAnimating' = FALSE /\ UNCHANGED pathFrames
    /\ UNCHANGED <<scrollBooted, scrollY, ticking, tickFrames, heroTimer,
                   acqVars, statVars, genVars, dashVars, debVars>>

\* an animation frame runs one requested animatePaths: returns at once unless
\* pathsAnimating, else moves the paths and requests the next frame
animatePaths ==
    /\ pathFrames > 0
    /\ pathFrames' = IF pathsAnimating THEN pathFrames ELSE pathFrames - 1
    /\ UNCHANGED <<scrollBooted, scrollY, ticking, tickFrames, pathsAnimating, heroTimer,
                   lastReport, acqVars, statVars, genVars, dashVars, debVars>>

InitScroll == AcqIdle /\ StatIdle /\ GenIdle /\ UiIdle

NextScroll ==
    \/ \E y \in 0..MaxScrollY : ScrollInit(y)
    \/ \E y \in 0..MaxScrollY : onScroll(y)
    \/ onTick
    \/ HeroTimerFires
    \/ \E b \in {"in", "out"} : ObserverReports(b)
    \/ animatePaths

ScrollSpec == InitScroll /\ [][NextScroll]_vars

(***************************************************************************)
(* debounce(fn, ms) (src/unnamed/part_000): the closure keeps `timer`, the  *)
(* id of the timer it set last.  A timer fires at or after its due time.   *)
(***************************************************************************)
\* the wait `ms`, in clock ticks
DebounceMs == 2

\* most calls of the debounced function followed in one behaviour
MaxCalls == 3

\* the last clock value
MaxTime == 6

\* the argument lists the debounced function is called with
DebounceArgs == {"a", "b"}

\* clearTimeout(id): the timer of that id, if still pending, is dropped
clearTimeout(timers, id) == {t \in timers : t.id # id}

\* setTimeout(() => fn(...args), ms): a new pending timer
setTimeout(timers, id, args, now) ==
    timers \cup {[id |-> id, args |-> args, due |-> now + DebounceMs]}

\* a debounced function that sets its timer without clearing the old one
debouncedNoClear(timers, timer, id, args, now) == setTimeout(timers, id, args, now)

\* the function debounce returns: clearTimeout(timer); timer = setTimeout(...)
debounced(timers, timer, id, args, now) ==
    setTimeout(clearTimeout(timers, timer), id, args, now)

\* a call of the debounced function with arguments a
DebouncedCall(a) ==
    /\ Len(dCalls) < MaxCalls
    /\ dCalls' = Append(dCalls, [args |-> a, at |-> dNow])
    /\ dTimers' = debounced(dTimers, dTimer, Len(dCalls) + 1, a, dNow)
    /\ dTimer' = Len(dCalls) + 1
    /\ UNCHANGED <<dNow, dRuns, acqVars, statVars, genVars, dashVars, scrollVars>>

\* a pending timer that is due fires: fn(...args) runs
TimerFires ==
    \E t \in dTimers :
        /\ t.due <= dNow
        /\ dTimers' = dTimers \ {t}
        /\ dRuns' = Append(dRuns, [args |-> t.args, at |-> dNow, of |-> t.id,
                                   calls |-> Len(dCalls)])
        /\ UNCHANGED <<dTimer, dNow, dCalls, acqVars, statVars, genVars,
                       dashVars, scrollVars>>

\* time passes
Tick ==
    /\ dNow < MaxTime
    /\ dNow' = dNow + 1
    /\ UNCHANGED <<dTimer, dTimers, dCalls, dRuns, acqVars, statVars, genVars,
                   dashVars, scrollVars>>

InitDebounce == AcqIdle /\ StatIdle /\ GenIdle /\ UiIdle

NextDebounce ==
    \/ \E a \in DebounceArgs : DebouncedCall(a)
    \/ TimerFires
    \/ Tick

DebounceSpec == InitDebounce /\ [][NextDebounce]_vars

(***************************************************************************)
(* Properties.                                                             *)
(***************************************************************************)
SourceOrder == <<"full", "raw", "mock">>

\* C1: the sources are tried in the order rich, raw-paths, synthetic, one
\* after the other: an attempt is started only when every earlier attempt has
\* failed, at most one attempt is pending at any time, and the invocation
\* resolves with the result of its last attempt, which succeeded.
C1_SequentialOrder ==
    /\ Len(attempts) <= 3
    /\ \A i \in 1..Len(attempts) : attempts[i].src = SourceOrder[i]
    /\ \A i \in 1..(Len(attempts) - 1) : attempts[i].st = "failed"
    /\ Cardinality({i \in 1..Len(attempts) : attempts[i].st = "pending"}) <= 1
    /\ pc \in {"full_fetch", "full_json"} =>
         Len(attempts) = 1 /\ attempts[1].st = "pending"
    /\ pc \in {"raw_fetch", "raw_json"} =>
         Len(attempts) = 2 /\ attempts[2].st = "pending"
    /\ pc = "mock_delay" => Len(attempts) = 3 /\ attempts[3].st = "pending"
    /\ pc = "resolved" =>
         /\ attempts[Len(attempts)].st = "ok"
         /\ attempts[Len(attempts)].src = source

\* C1 witness: both network attempts have failed and the synthetic one runs
C1_Witness ==
    /\ pc = "mock_delay"
    /\ attempts = <<[src |-> "full", st |-> "failed"], [src |-> "raw", st |-> "failed"],
                    [src |-> "mock", st |-> "pending"]>>

\* a rich body is structurally valid: an object with every field the
\* normalizer reads and a non-empty list of non-empty sample paths
RichBodyValid(d) ==
    /\ ~d.isNull
    /\ d.missing = {}
    /\ Len(d.sample_paths) > 0
    /\ Len(d.sample_paths[1]) > 0

\* C2: a network attempt that met a non-success status, a transport failure
\* or a structurally invalid payload counts as failed: no result is built
\* from an invalid payload, and no error reaches the caller.
C2_InvalidPayloadFails ==
    /\ pc # "rejected"
    /\ pc = "resolved" /\ source = "full" => RichBodyValid(resp)
    /\ pc = "resolved" /\ source = "raw" => ~RawBodyThrows(resp)

\* C3: every invocation eventually resolves, with exactly one result, and
\* never rejects, whatever the ticker and whatever the endpoints do.
C3_AlwaysResolves ==
    /\ [](pc # "rejected")
    /\ [](nSettled <= 1)
    /\ [](pc = "resolved" => nSettled = 1 /\ result # None)
    /\ [](pc \notin {"idle", "resolved"} => nSettled = 0)
    /\ (pc = "full_fetch") ~> (pc = "resolved")

\* C3 witness: an unknown ticker, both endpoints failed, resolved by the
\* synthetic source
C3_Witness ==
    /\ pc = "resolved"
    /\ ticker = "ZZZ"
    /\ source = "mock"
    /\ nSettled = 1

\* C4: every returned object is a complete CanonicalResult: none of its
\* fields is undefined, whichever source built it.
C4_CompleteResult == pc = "resolved" => result.undef = {}

\* what the normalizer of `src` makes of ticker t (the rich endpoint echoing t)
SourceSample(src, t) ==
    CASE src = "full" -> fetchFull(RichBody(t, 1))
      [] src = "raw" -> fetchRawPaths(t, Ensemble(1, 1, 0), 0, 0)
      [] src = "mock" -> generateMockData(t, [seed |-> 0, u |-> 0, u1 |-> 0, u2 |-> 0])

\* C5: the result's ticker and name are filled by the same rule in all three
\* sources: the name of a returned result is the name any of the three
\* normalizers gives the requested ticker.
C5_SameFieldRules ==
    pc = "resolved" /\ "name" \notin result.undef =>
        \A src \in {"full", "raw", "mock"} :
            /\ result.name = SourceSample(src, ticker).name
            /\ result.ticker = SourceSample(src, ticker).ticker

IsPrefix(a, b) == Len(a) <= Len(b) /\ a = SubSeq(b, 1, Len(a))

\* C6: in all three sources price_paths holds at most VIZ_SAMPLE_COUNT paths,
\* a prefix of the ensemble received.
C6_SampleBounded ==
    pc = "resolved" /\ "price_paths" \notin result.undef =>
        /\ Len(result.price_paths) <= VIZ_SAMPLE_COUNT
        /\ source = "raw" => IsPrefix(result.price_paths, resp.paths)
        /\ source = "full" => IsPrefix(result.price_paths, resp.sample_paths)

\* the ensemble generateMockData built for the draws it consumed
MockEnsemble ==
    [i \in 1..MockNumPaths |->
        generatePath(getTickerConfig(ticker).price, MockDays, i, draws.seed)]

StatsAre(st) ==
    /\ result.risk_statistics = st.risk_statistics
    /\ result.histogram_data = st.histogram_data
    /\ result.drawdown_distribution = st.drawdown_distribution

\* C7: a result of the raw-paths source carries the statistics
\* computeStatsFromPaths yields for the whole received ensemble with the
\* first price of the first path as start price; a result of the synthetic
\* source those of all generated paths.
C7_StatsFromFullEnsemble ==
    /\ pc = "resolved" /\ source = "raw" =>
         /\ result.start_price = resp.paths[1][1]
         /\ StatsAre(computeStatsFromPaths(resp.paths, resp.paths[1][1], draws.u))
    /\ pc = "resolved" /\ source = "mock" =>
         StatsAre(computeStatsFromPaths(MockEnsemble, getTickerConfig(ticker).price,
                                        draws.u))

\* C7 witness: the rich attempt failed and the raw-paths endpoint sent more
\* paths than the sample holds
C7_Witness ==
    /\ pc = "resolved"
    /\ source = "raw"
    /\ attempts[1].st = "failed"
    /\ Len(resp.paths) > VIZ_SAMPLE_COUNT
    /\ Len(result.price_paths) < Len(resp.paths)

\* the integer nearest to t/2 (ties upwards)
NearestInt(t) == CHOOSE n \in 0..t : 2 * n - 1 <= t /\ t < 2 * n + 1

\* C8: in a raw-paths result the fast timing is the latency rounded to an
\* integer and at least 1, the slow timing 15 times the fast one, and
\* speed_improvement_x 15.0.
C8_RawTimings ==
    pc = "resolved" /\ source = "raw" =>
        /\ result.performance.fpga_time_ms >= 1
        /\ result.performance.fpga_time_ms =
             (IF NearestInt(apiTime) < 1 THEN 1 ELSE NearestInt(apiTime))
        /\ result.performance.cpu_time_ms = 15 * result.performance.fpga_time_ms
        /\ result.performance.speed_improvement_x = 150

\* C8 witness: a raw-paths result whose latency rounds to 0
C8_Witness ==
    /\ pc = "resolved"
    /\ source = "raw"
    /\ apiTime = 0
    /\ result.performance.fpga_time_ms = 1

\* C9: a rich result carries the response's performance, risk, histogram and
\* drawdown fields unchanged, and no statistics were computed for it.
C9_RichPassThrough ==
    pc = "resolved" /\ source = "full" =>
        /\ statsCalls = 0
        /\ result.performance = [ fpga_time_ms |-> resp.fpga_time_ms,
                                  cpu_time_ms |-> resp.cpu_time_ms,
                                  speed_improvement_x |-> resp.speed_improvement_x ]
        /\ result.risk_statistics =
             [ value_at_risk_95 |-> resp.value_at_risk_95,
               conditional_value_at_risk_95 |-> resp.conditional_value_at_risk_95,
               probability_of_profit |-> resp.probability_of_profit,
               average_drawdown_days |-> resp.average_drawdown_days ]
        /\ result.histogram_data = [ bin_edges |-> resp.histogram_bin_edges,
                                     fpga_counts |-> resp.histogram_fpga_counts,
                                     cpu_counts |-> resp.histogram_cpu_counts ]
        /\ result.drawdown_distribution = [ bin_edges |-> resp.drawdown_bin_edges,
                                            counts |-> resp.drawdown_counts ]
        /\ \A f \in ResultFields : (f \in result.undef) = (RichSource(f) \in resp.missing)

\* C9 witness: a result built from a complete rich response
C9_Witness ==
    /\ pc = "resolved"
    /\ source = "full"
    /\ resp.missing = {}
    /\ result.performance.cpu_time_ms = 2200

\* C10: the drawdown bucket counts sum to the number of paths.
C10_DrawdownCountsSum ==
    sStats # None =>
        SumSeq(sStats.drawdown_distribution.counts) = Len(sPaths)

\* C10 witness: paths long enough for ddStep = 2, one of them below the start
\* price on every step, counted in the open-ended bucket
C10_Witness ==
    /\ sStats # None
    /\ Len(sPaths[1]) = 11
    /\ Len(sPaths) >= 11
    /\ sStats.drawdown_distribution.counts[5] >= 1
    /\ sStats.drawdown_distribution.counts[1] >= 1
    /\ \E i \in 1..Len(sPaths) : \A d \in 2..11 : sPaths[i][d] < sStart

\* the ensemble under test as the statistics engine reads it
sFinal == FinalPrices(sPaths)
sTrimLow == Percentile(Sorted(sFinal), 2)
sTrimHigh == Percentile(Sorted(sFinal), 98)
sOutside == {i \in 1..Len(sPaths) : sFinal[i] < sTrimLow \/ sFinal[i] > sTrimHigh}

\* C11: each histogram count series (fpga_counts, cpu_counts) sums to at most
\* the number of paths N, and to N only if no final price lies outside the
\* trimmed range [trimLow, trimHigh].
C11_HistogramSums ==
    sStats # None =>
        \A counts \in {sStats.histogram_data.fpga_counts,
                       sStats.histogram_data.cpu_counts} :
            /\ SumSeq(counts) <= Len(sPaths)
            /\ SumSeq(counts) = Len(sPaths) => sOutside = {}

\* C12: probability_of_profit is 100 * (number of final prices strictly above
\* the start price) / N to the nearest tenth, lies in [0, 100], and is 66.7
\* for the final prices 95, 112, 101 against the start price 100.
C12_ProbabilityOfProfit ==
    sStats # None =>
        LET nProfit == Cardinality({i \in 1..Len(sPaths) : sFinal[i] > sStart})
            p == sStats.risk_statistics.probability_of_profit
            err == p * Len(sPaths) - 1000 * nProfit
        IN  /\ p \in 0..1000
            /\ 2 * err <= Len(sPaths) /\ 2 * (0 - err) <= Len(sPaths)
            /\ sPaths = ExampleEnsemble => p = 667

\* C12 witness: the example ensemble, and an ensemble with a final price
\* equal to the start price that is not counted as profit
C12_Witness ==
    /\ sStats # None
    /\ sStats.risk_statistics.probability_of_profit = 500
    /\ Len(sPaths) = 2
    /\ \E i \in 1..2 : sFinal[i] = sStart
    /\ \E i \in 1..2 : sFinal[i] > sStart

\* path[t] < startPrice for every step t of a..b (step t is path[t + 1])
IsRun(path, startPrice, a, b) == \A t \in a..b : path[t + 1] < startPrice

\* m is the length of the longest run of consecutive steps in 1..days-1 below
\* the start price
IsLongestRun(path, startPrice, m) ==
    LET days == Len(path)
    IN  /\ m = 0 \/ \E a \in 1..(days - m) : IsRun(path, startPrice, a, a + m - 1)
        /\ ~ \E a \in 1..(days - m - 1) : IsRun(path, startPrice, a, a + m)

\* C13 (as amended): the max-drawdown value of every path is the length of
\* the longest run of consecutive steps t in 1..days-1 with price[t] strictly
\* below the start price; the example paths [100,90,90,90,95],
\* [100,105,110,108,112], [100,99,100,100,101] give 4, 0 and 1, so the five
\* drawdown buckets of the example hold 1, 1, 0, 0 and 1 paths.
C13_DrawdownRuns ==
    sStats # None =>
        /\ \A i \in 1..Len(sPaths) :
               IsLongestRun(sPaths[i], sStart, MaxDrawdowns(sPaths, sStart)[i])
        /\ sPaths = ExampleEnsemble =>
               /\ MaxDrawdowns(sPaths, sStart) = <<4, 0, 1>>
               /\ sStats.drawdown_distribution.counts = <<1, 1, 0, 0, 1>>

\* C13 as stated: the same, the example paths giving 3, 0 and 1.
C13_DrawdownRunsStated ==
    sStats # None =>
        /\ \A i \in 1..Len(sPaths) :
               IsLongestRun(sPaths[i], sStart, MaxDrawdowns(sPaths, sStart)[i])
        /\ sPaths = ExampleEnsemble =>
               /\ MaxDrawdowns(sPaths, sStart) = <<3, 0, 1>>
               /\ sStats.drawdown_distribution.counts = <<1, 1, 0, 1, 0>>

\* C13 witness: the statistics of the example ensemble
C13_Witness ==
    /\ sStats # None
    /\ sPaths = ExampleEnsemble
    /\ sStats.drawdown_distribution.counts[5] = 1

\* the index floor(0.05 * N) of the code, as a position of a sequence
sVarPos == ((5 * Len(sPaths)) \div 100) + 1

\* C14: on the ascending-sorted final prices VaR95 is the element at index
\* floor(0.05 * N), and CVaR95 is the mean of exactly the elements with index
\* <= floor(0.05 * N), also when several final prices equal VaR95 (both
\* rounded to cents).
C14_VarCvar ==
    sStats # None =>
        LET sorted == Sorted(sFinal)
            tail == SubSeq(sorted, 1, sVarPos)
        IN  /\ sStats.risk_statistics.value_at_risk_95 =
                 ToFixed(sorted[sVarPos], 1000, 100)
            /\ sStats.risk_statistics.conditional_value_at_risk_95 =
                 ToFixed(SumSeq(tail), Len(tail) * 1000, 100)

\* C15: two calls of computeStatsFromPaths on the same ensemble and start
\* price return identical risk statistics and identical histogram data
\* (bin_edges, fpga_counts and cpu_counts).
C15_Idempotent ==
    sStats # None /\ sAgain # None =>
        /\ sAgain.risk_statistics = sStats.risk_statistics
        /\ sAgain.histogram_data = sStats.histogram_data

InBucket(v, bucket) == v >= bucket.lo /\ (bucket.hi = Infinity \/ v < bucket.hi)

\* C17: there are exactly 5 drawdown buckets, with ddStep = max(1,
\* floor((days - 1) / 5)): bucket i is [i * ddStep, (i + 1) * ddStep) for
\* i = 0..3 and the last is [4 * ddStep, infinity); every value >= 0 lies in
\* exactly one bucket, and one label and one count are returned per bucket.
C17_DrawdownBuckets ==
    sStats # None =>
        LET days == Len(sPaths[1])
            ddStep == IF (days - 1) \div 5 >= 1 THEN (days - 1) \div 5 ELSE 1
            edges == ddBinEdges(days)
            labels == sStats.drawdown_distribution.bin_edges
            counts == sStats.drawdown_distribution.counts
        IN  /\ DOMAIN edges = 1..5 /\ DOMAIN labels = 1..5 /\ DOMAIN counts = 1..5
            /\ \A i \in 1..4 :
                 /\ edges[i] = [lo |-> (i - 1) * ddStep, hi |-> i * ddStep]
                 /\ labels[i] = <<(i - 1) * ddStep, i * ddStep>>
                 /\ edges[i].hi = edges[i + 1].lo
                 /\ edges[i].lo < edges[i].hi
            /\ edges[5] = [lo |-> 4 * ddStep, hi |-> Infinity]
            /\ labels[5] = <<4 * ddStep>>
            /\ \A v \in 0..(days + 5 * ddStep) :
                 Cardinality({i \in 1..5 : InBucket(v, edges[i])}) = 1
            /\ \A i \in 1..5 :
                 counts[i] = Cardinality({j \in 1..Len(sPaths) :
                     InBucket(MaxDrawdowns(sPaths, sStart)[j], edges[i])})

\* C17 witness: paths so short that ddStep is clamped to 1, with paths in the
\* first two buckets
C17_Witness ==
    /\ sStats # None
    /\ Len(sPaths[1]) = 3
    /\ sStats.drawdown_distribution.bin_edges[1] = <<0, 1>>
    /\ sStats.drawdown_distribution.counts[1] >= 1
    /\ sStats.drawdown_distribution.counts[2] >= 1

\* price p lies in bin b (1..binCount) of the equal-width partition of
\* [lo, hi], the last bin holding hi as well
InBin(p, b, lo, hi) ==
    \/ /\ (b - 1) * (hi - lo) <= binCount * (p - lo)
       /\ binCount * (p - lo) < b * (hi - lo)
    \/ b = binCount /\ p = hi

\* C18: the trimmed range [trimLow, trimHigh] (the floor(0.02 * N)-th and
\* floor(0.98 * N)-th order statistics) is split into 24 equal-width bins,
\* every final price in the range is counted in exactly one bin (trimHigh in
\* the last one), prices outside it in none: fpga_counts sums to the number
\* of final prices within the trimmed range.
C18_HistogramPartition ==
    sStats # None =>
        LET lo == sTrimLow
            hi == sTrimHigh
            final == sFinal
            inRange == {i \in 1..Len(sPaths) : lo <= final[i] /\ final[i] <= hi}
            fpga == sStats.histogram_data.fpga_counts
        IN  /\ DOMAIN fpga = 1..binCount
            /\ \A b \in 1..binCount :
                 fpga[b] = Cardinality({i \in inRange : InBin(final[i], b, lo, hi)})
            /\ SumSeq(fpga) = Cardinality(inRange)

\* the keys of CONFIGS
KnownTickers == DOMAIN CONFIGS

\* C19: for every ticker that is not a key of CONFIGS, getTickerConfig and
\* generateMockData use the SPY configuration, and the synthetic result is
\* built from it.
C19_UnknownTickerDefault ==
    pc = "resolved" /\ source = "mock" /\ ticker \notin KnownTickers =>
        /\ getTickerConfig(ticker) = CONFIGS.SPY
        /\ result.undef = {}
        /\ result.start_price = CONFIGS.SPY.price
        /\ result.name = CONFIGS.SPY.name
        /\ result.price_paths[1][1] = CONFIGS.SPY.price

\* C20: the raw-paths attempt fails whenever the response has a non-success
\* status, holds no paths or holds a zero-length path: a result of the
\* raw-paths source comes from a response every path of which is non-empty,
\* and no statistics were computed when the attempt failed.
C20_RawFailure ==
    /\ pc = "resolved" /\ source = "raw" =>
         /\ ~resp.isNull /\ resp.hasPaths
         /\ Len(resp.paths) > 0
         /\ \A i \in 1..Len(resp.paths) : Len(resp.paths[i]) > 0
    /\ pc = "mock_delay" => statsCalls = 0

\* the runs whose acquisition settles in this step
Settling == {i \in 1..Len(runs) : runs[i].status = "pending" /\ runs'[i].status # "pending"}

\* C21: when the acquisition of a run settles, the run ends in one of two
\* ways: currentData is the returned result and the dashboard is in RESULTS
\* with that result rendered, or something threw and the dashboard is in IDLE
\* with one more toast; and the dashboard is in PROCESSING only while the run
\* started last is still awaiting its acquisition.
C21_RunOutcome ==
    /\ [][\A i \in Settling :
            \/ /\ runs'[i].status = "shown"
               /\ ~RenderThrows(runs'[i].data)
               /\ currentData' = runs'[i].data
               /\ currentState' = State.RESULTS
               /\ rendered' = [data |-> runs'[i].data, complete |-> TRUE]
               /\ toasts' = toasts
            \/ /\ runs'[i].status = "failed"
               /\ RenderThrows(runs'[i].data)
               /\ currentState' = State.IDLE
               /\ toasts' = toasts + 1]_vars
    /\ [](currentState = State.PROCESSING =>
            Len(runs) > 0 /\ runs[Len(runs)].status = "pending")

\* C21 witness: one run ended in RESULTS after another ended with the toast
C21_Witness ==
    /\ Len(runs) = 2
    /\ runs[1].status = "failed"
    /\ runs[2].status = "shown"
    /\ currentState = State.RESULTS
    /\ toasts = 1

\* C22: once two runs have both settled, currentData and the rendered
\* dashboard hold the result of the run that was started last, whatever the
\* order in which the two acquisitions completed.
C22_NewerRunReplaces ==
    (Len(runs) = 2 /\ \A i \in 1..2 : runs[i].status # "pending") =>
        /\ currentData = runs[2].data
        /\ rendered.data = runs[2].data

\* C23: RESULTS is entered only from PROCESSING: whenever the dashboard is in
\* RESULTS, the transition that brought it there left PROCESSING.
C23_ResultsOnlyFromProcessing ==
    currentState = State.RESULTS => lastFrom = State.PROCESSING

\* C24: after boot currentState is idle, processing or results, the panel of
\* currentState is visible and the other two panels are hidden.
C24_OnePanelVisible ==
    booted =>
        /\ currentState \in {State.IDLE, State.PROCESSING, State.RESULTS}
        /\ hidden.idle = (currentState # State.IDLE)
        /\ hidden.processing = (currentState # State.PROCESSING)
        /\ hidden.results = (currentState # State.RESULTS)

\* C24 witness: a self-transition PROCESSING -> PROCESSING has happened
C24_Witness ==
    /\ booted
    /\ currentState = State.PROCESSING
    /\ lastFrom = State.PROCESSING
    /\ ~hidden.processing

\* C25: no chart exists while currentState is IDLE or PROCESSING.
C25_ChartsOnlyInResults == currentState # State.RESULTS => charts = {}

\* C26: warpRunning is true exactly while currentState is PROCESSING, the
\* draw loop has at most one frame pending, and none once PROCESSING was
\* left: no warp frame fires, draws or reschedules outside PROCESSING.
C26_WarpWhileProcessing ==
    LET warp == {i \in 1..Len(frames) : frames[i].kind = "warp"}
    IN  /\ warpRunning = (currentState = State.PROCESSING)
        /\ Cardinality(warp) <= 1
        /\ currentState # State.PROCESSING => warp = {}

\* C26 witness: the loop ran and was stopped when the results arrived
C26_Witness ==
    /\ currentState = State.RESULTS
    /\ lastFrom = State.PROCESSING
    /\ warpRafId = "id"
    /\ ~warpRunning

\* C27: at any time at most one onTick callback is waiting for a frame,
\* the initial tick requested by init included.
C27_SinglePendingTick == tickFrames <= 1

\* C28: whenever the observer's last report is not-intersecting,
\* pathsAnimating is false (so animatePaths does not reschedule itself).
C28_PausedOutsideViewport == lastReport = "out" => ~pathsAnimating

\* the calls so far form one burst: each came less than ms after the one before
IsBurst == \A k \in 1..(Len(dCalls) - 1) : dCalls[k + 1].at - dCalls[k].at < DebounceMs

\* C29: at most one timer is pending; every invocation of fn has the
\* arguments of the call that set its timer, comes at least ms after that
\* call and before any further call; no call yields two invocations; a burst
\* of calls yields at most one invocation, and exactly one, with the
\* arguments of the last call, once no timer is pending.
C29_Debounce ==
    /\ Cardinality(dTimers) <= 1
    /\ \A t \in dTimers : t.id = dTimer
    /\ \A r \in 1..Len(dRuns) :
          /\ dRuns[r].args = dCalls[dRuns[r].of].args
          /\ dRuns[r].at >= dCalls[dRuns[r].of].at + DebounceMs
          /\ dRuns[r].calls = dRuns[r].of
          /\ \A q \in 1..Len(dRuns) : dRuns[q].of = dRuns[r].of => q = r
    /\ IsBurst => Len(dRuns) <= 1
    /\ IsBurst /\ dCalls # <<>> /\ dTimers = {} =>
          /\ Len(dRuns) = 1
          /\ dRuns[1].args = dCalls[Len(dCalls)].args

\* C29 witness: a burst of three calls, the last with other arguments than the
\* first two, has produced its one invocation
C29_Witness ==
    /\ Len(dCalls) = 3
    /\ IsBurst
    /\ dCalls[1].args = "a" /\ dCalls[2].args = "a" /\ dCalls[3].args = "b"
    /\ dTimers = {}
    /\ Len(dRuns) = 1
    /\ dRuns[1].args = "b"

\* the tail set CVaR95 is averaged over: the sorted final prices <= VaR95
sTail ==
    LET sorted == Sorted(sFinal)
    IN  SelectSeq(sorted, LAMBDA p : JsLe(p, Percentile(sorted, 5)))

=============================================================================
